---- MODULE Spec2Model ----
(***************************************************************************)
(* Grid A* path search of the Mars rover planner:                          *)
(*   src/mars_pathfinder/astar_core.py  (astar, reconstruct, neighbors_8)  *)
(*   src/rover_astar_sim.py             (the second, identical astar)      *)
(*   src/cost_layers.py                 (WeightedCost.edge_cost_fn)        *)
(*   src/mars_pathfinder/costs.py       (edge_cost_factory.edge_cost)      *)
(*   src/run_simulation.py              (heuristics, neighbors_fn_roi)     *)
(*                                                                         *)
(* Numbers.  The code computes in binary floating point.  Here a real x is *)
(* the integer floor(x * Scale); square roots are integer square roots of  *)
(* the scaled radicand.  float("inf") / np.inf is the integer Inf with     *)
(* saturating arithmetic, and a Python None cost is NoneCost.              *)
(***************************************************************************)
EXTENDS Integers, Sequences, FiniteSets, TLC

\* ---------------------------------------------------------------- bounds
GridH == 2
GridW == 3
ScenN == 5
MaxCap == 2
MaxBeam == 2
MaxCalls == 3
MaxSpike == 3
MaxRadius == 1
MaxTilt == 1
Scale == 1000

\* ------------------------------------------------------------- constants
\* np.inf (WeightedCost.block_penalty) and float("inf") (astar's failure cost)
Inf == 1000000000
\* a cost function's None ("impassable") and astar's best_goal_cost = None
NoneCost == -1

\* best_goal_node = None, parent[start] = None
NoNode == <<-1, -1>>
\* astar's path = None (reconstruct never returns an empty list: it always
\* appends the node it is given, so <<>> stands for None and nothing else)
NoPath == <<>>
\* an optional keyword argument left at None
NoneOpt == -1
\* a cost function that raises instead of returning (numpy's IndexError)
IndexError == -2

\* ------------------------------------------------------------ arithmetic
Abs(x) == IF x < 0 THEN -x ELSE x
Sign(x) == IF x < 0 THEN -1 ELSE IF x > 0 THEN 1 ELSE 0
Max2(a, b) == IF a >= b THEN a ELSE b
Min2(a, b) == IF a <= b THEN a ELSE b

\* a / b rounded towards zero
SDiv(a, b) == Sign(a) * Sign(b) * (Abs(a) \div Abs(b))

\* IEEE addition and multiplication on [0, +inf]
FAdd(a, b) == IF a >= Inf \/ b >= Inf THEN Inf ELSE a + b
FMul(k, a) == IF a >= Inf THEN Inf ELSE k * a

\* bisection between lo and hi (mid: their midpoint, evaluated once)
RECURSIVE ISqrtIter(_, _, _)
ISqrtIter(n, lo, hi) ==
    IF lo >= hi THEN lo
    ELSE CHOOSE r \in {IF mid * mid <= n THEN ISqrtIter(n, mid, hi)
                       ELSE ISqrtIter(n, lo, mid - 1) :
                           mid \in {(lo + hi + 1) \div 2}} : TRUE

\* floor(sqrt(n))
ISqrt(n) == ISqrtIter(n, 0, 46340)

\* math.hypot(a, b) / np.hypot(a, b), scaled
Hypot(a, b) == ISqrt((a * a + b * b) * Scale * Scale)

\* np.sqrt(2.0) (WeightedCost.diag_cost), scaled
Sqrt2 == Hypot(1, 1)

\* ----------------------------------------------------------------- state
VARIABLES
    H, W,             \* grid shape (layers.slope.shape / N, N)
    layers,           \* CostLayers / Layers: blocked, slope, rough, height, meters_per_cell
    fns,              \* the callables handed to astar: cost model, neighbors, heuristic
    cfg,              \* astar's keyword arguments
    params,           \* cost parameters: the request's slope_weight, EnergyParams' regen
    pts,              \* the waypoints as clicked / posted, before snapping
    max_radius,       \* nearest_unblocked's max_radius
    order,            \* the planner's waypoint list [start] + goals / way_rc
    leg,              \* number of astar calls started so far
    start, goal,      \* arguments of the running call
    pc,               \* "ready" | "loop" | "done" | "raised"
    openh, g, parent, closed, expansions, expanded_order,
    best_goal_cost, best_goal_node, counter,
    result,           \* the tuple astar returned, and the return statement taken
    fnCalls,          \* calls of heuristic_fn, neighbors_fn, edge_cost_fn in this call
    hist,             \* the completed calls: arguments and results
    route,            \* the planner's path_rc / full_path, totals, legs_cost
    probe             \* the last edge handed to the cost functions, and what they returned

inputs == <<H, W, layers, fns, cfg, params, pts, max_radius, order>>
search == <<openh, g, parent, closed, expansions, expanded_order,
            best_goal_cost, best_goal_node, counter>>
vars == <<inputs, leg, start, goal, pc, search, result, fnCalls, hist, route, probe>>

Cells(h, w) == (0 .. h - 1) \X (0 .. w - 1)
Grid == Cells(H, W)

\* ------------------------------------------------------------- neighbors
InBounds(v, h, w) == 0 <= v[1] /\ v[1] < h /\ 0 <= v[2] /\ v[2] < w

\* for dr in (-1,0,1): for dc in (-1,0,1): skip (0,0)
Offsets8 ==
    << <<-1, -1>>, <<-1, 0>>, <<-1, 1>>, <<0, -1>>,
       <<0, 1>>, <<1, -1>>, <<1, 0>>, <<1, 1>> >>

Shifted(u, offs) == [i \in 1 .. Len(offs) |-> <<u[1] + offs[i][1], u[2] + offs[i][2]>>]

neighbors_8(u, h, w) ==
    SelectSeq(Shifted(u, Offsets8), LAMBDA v : InBounds(v, h, w))

steps4 == << <<-1, 0>>, <<1, 0>>, <<0, -1>>, <<0, 1>> >>
steps8 == steps4 \o << <<-1, -1>>, <<-1, 1>>, <<1, -1>>, <<1, 1>> >>

\* neighbors_fn_roi with the diagonal steps in 4-connected mode too
neighbors_fn_roi_Always8(u, bounds, four_connected) ==
    SelectSeq(Shifted(u, steps8),
              LAMBDA v : bounds[1] <= v[1] /\ v[1] <= bounds[2]
                         /\ bounds[3] <= v[2] /\ v[2] <= bounds[4])

\* bounds = (rmin, rmax, cmin, cmax), both ends inclusive
neighbors_fn_roi(u, bounds, four_connected) ==
    SelectSeq(Shifted(u, IF four_connected THEN steps4 ELSE steps8),
              LAMBDA v : bounds[1] <= v[1] /\ v[1] <= bounds[2]
                         /\ bounds[3] <= v[2] /\ v[2] <= bounds[4])

SetMin(S) == CHOOSE x \in S : \A y \in S : x <= y
SetMax(S) == CHOOSE x \in S : \A y \in S : x >= y

\* roi_bounds([start] + goals, H, W, pad): the waypoints' bounding box grown
\* by pad cells and cut at the grid's edges
roi_bounds ==
    LET rs == {order[i][1] : i \in DOMAIN order}
        cs == {order[i][2] : i \in DOMAIN order}
    IN  <<Max2(0, SetMin(rs) - params.pad), Min2(H - 1, SetMax(rs) + params.pad),
          Max2(0, SetMin(cs) - params.pad), Min2(W - 1, SetMax(cs) + params.pad)>>

neighbors_fn(u) ==
    IF fns.nbr = "n8" THEN neighbors_8(u, H, W)
    ELSE neighbors_fn_roi(u, roi_bounds, fns.nbr = "roi4")

\* ----------------------------------------------------------- cost models
\* WeightedCost() defaults
W_DIST == 1
W_SLOPE == 3
W_ROUGH == 1

IsDiag(u, v) == v[1] - u[1] # 0 /\ v[2] - u[2] # 0

\* WeightedCost with every step charged as an axial one
WeightedCost_AxialSteps(u, v) ==
    IF ~InBounds(v, H, W) THEN Inf
    ELSE IF v \in layers.blocked THEN Inf
    ELSE (layers.meters_per_cell * Scale
          * (45 * W_DIST * Scale + W_SLOPE * layers.slope[v]
             + 45 * W_ROUGH * layers.rough[v]))
         \div (45 * Scale)

\* WeightedCost.edge_cost_fn(layers).cost: block_penalty = np.inf, never None
WeightedCost(u, v) ==
    IF ~InBounds(v, H, W) THEN Inf
    ELSE IF v \in layers.blocked THEN Inf
    ELSE LET step == IF IsDiag(u, v) THEN Sqrt2 ELSE Scale
             step_dist == layers.meters_per_cell * step
         IN  (step_dist * (45 * W_DIST * Scale + W_SLOPE * layers.slope[v]
                           + 45 * W_ROUGH * layers.rough[v])) \div (45 * Scale)

\* request defaults of astar_solve: max_slope 0.6, slope_weight 2.0; EDGE_TOL 1.10
MaxGradePct == 60
SlopeWeight == 2
EdgeTolPct == 110

\* horiz_dist_m between the centres of u and v on a window small enough for
\* the cell spacing to be the same everywhere
HorizDist(u, v) == layers.meters_per_cell * Hypot(v[1] - u[1], v[2] - u[2])

\* numpy indexing a[r, c]: a negative index counts from the end, an index
\* outside -n .. n-1 raises IndexError
NpIndex(v) ==
    <<IF v[1] < 0 THEN v[1] + H ELSE v[1], IF v[2] < 0 THEN v[2] + W ELSE v[2]>>

\* edge_cost without the per-edge grade check
edge_cost_NoGradeCheck(u, v) ==
    IF ~InBounds(NpIndex(v), H, W) THEN IndexError
    ELSE IF NpIndex(v) \in layers.blocked THEN NoneCost
    ELSE LET hd == HorizDist(u, v)
             dh == layers.height[NpIndex(v)] - layers.height[NpIndex(u)]
         IN  IF hd <= 0 THEN NoneCost
             ELSE hd + params.slope_weight * Abs(dh) * Scale

\* costs.edge_cost_factory(...).edge_cost
edge_cost(u, v) ==
    IF ~InBounds(NpIndex(v), H, W) THEN IndexError
    ELSE IF NpIndex(v) \in layers.blocked THEN NoneCost
    ELSE LET hd == HorizDist(u, v)
             dh == layers.height[NpIndex(v)] - layers.height[NpIndex(u)]
         IN  IF hd <= 0 THEN NoneCost
             ELSE IF Abs(dh) * Scale * 100 * 100 > MaxGradePct * EdgeTolPct * hd
                  THEN NoneCost
             ELSE hd + params.slope_weight * Abs(dh) * Scale

\* EnergyParams defaults: mass_kg 185.0, g 3.71 (hundredths), Crr 0.03
\* (thousandths), eta 0.70 (percent), k_rough_J_per_m 40.0, downhill_regen_eff
\* 0.10 (percent), min_grade -1.0, max_grade 1.0
MassKg == 185
GCentis == 371
CrrMilli == 30
EtaPct == 70
KRough == 40
RegenPct == 10
MinGrade == -1
MaxGrade == 1

\* m * g in newtons
MG == (MassKg * GCentis) \div 100

\* _grid_step_m: the step length in metres
GridStepM(u, v) ==
    layers.meters_per_cell * (IF IsDiag(u, v) THEN Sqrt2 ELSE Scale)

\* "grade = dh_m / d_m", clipped to [min_grade, max_grade]
ClippedGrade(u, v) ==
    LET dh_m == layers.height[v] - layers.height[u]
        d_m == GridStepM(u, v)
        grade == IF d_m > 0 THEN SDiv(dh_m * Scale * Scale, d_m) ELSE 0
    IN  Max2(MinGrade * Scale, Min2(MaxGrade * Scale, grade))

\* the drive energy with no loss in the drivetrain
DriveIn_NoLoss(E, eta) == E

\* "E_drive_in = E_mech_no_regen / max(1e-6, min(1.0, p.eta))", eta in percent
DriveIn(E, eta) == (E * 100) \div Max2(1, Min2(100, eta))

\* the energy of the step u -> v given its clipped grade and
\* hyp = sqrt(1 + grade^2): sin and cos of atan(grade) are grade / hyp and
\* 1 / hyp; forces in hundredths of a newton, energies in joules
EnergyOn(u, v, up, grade, hyp) ==
    LET d_m == GridStepM(u, v)
        sin_t == up * SDiv(grade * Scale, hyp)
        cos_t == (Scale * Scale) \div hyp
        F_grav_up == (MG * Max2(0, sin_t) * 100) \div Scale
        F_roll == (CrrMilli * MG * Abs(cos_t)) \div (10 * Scale)
        E_mech_no_regen == ((F_grav_up + F_roll) * d_m) \div 100
        E_grav_downhill ==
            (((MG * Max2(0, -sin_t) * 100) \div Scale) * d_m) \div 100
        E_regen == (params.regen * E_grav_downhill) \div 100
        E_rough == (KRough * layers.rough[v] * d_m) \div Scale
        E_drive_in == DriveIn(E_mech_no_regen, EtaPct)
        E_batt == E_drive_in + E_rough - E_regen
    IN  Max2(0, E_batt)

\* the body of move_energy_J with the sign of the climb as a parameter (gh:
\* the clipped grade and sqrt(1 + grade^2), evaluated once)
EnergyJ(u, v, up) ==
    IF v \in layers.blocked THEN NoneCost
    ELSE CHOOSE e \in {EnergyOn(u, v, up, gh[1], gh[2]) :
                         gh \in {<<grade, ISqrt(Scale * Scale + grade * grade)>> :
                                    grade \in {ClippedGrade(u, v)}}} : TRUE

\* move_energy_J with the sign of the climb reversed
move_energy_J_SignFlipped(u, v) == EnergyJ(u, v, -1)

\* energy.move_energy_J; physical_energy_cost_fn(layers, params,
\* scale_cost=1.0) returns it unchanged
move_energy_J(u, v) == EnergyJ(u, v, 1)

\* the planner's cost function: WeightedCost in run_simulation; in astar_solve
\* physical_energy_cost_fn in energy mode, edge_cost otherwise
edge_cost_fn(u, v) ==
    IF fns.cost = "weighted" THEN WeightedCost(u, v)
    ELSE IF fns.cost = "energy" THEN move_energy_J(u, v)
    ELSE edge_cost(u, v)

\* ------------------------------------------------------ layer derivation
\* np.gradient along one axis of n samples spaced m apart: one-sided
\* differences at the two ends, central differences inside; lo, at, hi are the
\* samples before, at and after position i
Gradient1(lo, at, hi, i, n, m) ==
    IF i = 0 THEN SDiv((hi - at) * Scale, m)
    ELSE IF i = n - 1 THEN SDiv((at - lo) * Scale, m)
    ELSE SDiv((hi - lo) * Scale, 2 * m)

\* e[r, c], or 0 outside the array where the value is never used
At(e, h, w, r, c) == IF InBounds(<<r, c>>, h, w) THEN e[<<r, c>>] ELSE 0

\* "gy, gx = np.gradient(elev_m, dy_m, dx_m); grad_mag = np.hypot(gx, gy)"
GradMag(e, h, w, m) ==
    [c \in Cells(h, w) |->
        LET gy == Gradient1(At(e, h, w, c[1] - 1, c[2]), e[c],
                            At(e, h, w, c[1] + 1, c[2]), c[1], h, m)
            gx == Gradient1(At(e, h, w, c[1], c[2] - 1), e[c],
                            At(e, h, w, c[1], c[2] + 1), c[2], w, m)
        IN  ISqrt(gx * gx + gy * gy)]

\* the k-th smallest value (from 0) of a layer
Kth(f, k) ==
    CHOOSE x \in {f[c] : c \in DOMAIN f} :
        /\ Cardinality({c \in DOMAIN f : f[c] < x}) <= k
        /\ k < Cardinality({c \in DOMAIN f : f[c] <= x})

\* np.percentile(f, q): linear interpolation between the two closest ranks
Percentile(f, q) ==
    LET n == Cardinality(DOMAIN f)
        i == (q * (n - 1)) \div 100
        frac == (q * (n - 1)) % 100
    IN  IF frac = 0 THEN Kth(f, i)
        ELSE Kth(f, i) + (frac * (Kth(f, i + 1) - Kth(f, i))) \div 100

\* "rough = np.clip((grad_mag - lo) / span, 0, 1)"
Roughness(gm) ==
    LET lo == Percentile(gm, 5)
        hi == Percentile(gm, 95)
        span == Max2(hi - lo, 1)
    IN  [c \in DOMAIN gm |-> Max2(0, Min2(Scale, SDiv((gm[c] - lo) * Scale, span)))]

\* "blocked = (slope_grade > max_grade)"
SlopeMask(gm) == {c \in DOMAIN gm : gm[c] * 100 > MaxGradePct * Scale}

\* astar_solve's layers for the elevation window e with cells m metres apart;
\* slope is slope_grade, which astar_solve keeps beside its Layers
DerivedLayers(e, h, w, m) ==
    LET gm == GradMag(e, h, w, m)
    IN  [blocked |-> SlopeMask(gm), slope |-> gm, rough |-> Roughness(gm),
         height |-> e, meters_per_cell |-> m]

\* "nodata": a sample of the window that is not a number
NaN == -999999

RECURSIVE SumOver(_, _)
SumOver(f, S) ==
    IF S = {} THEN 0
    ELSE LET c == CHOOSE x \in S : TRUE IN f[c] + SumOver(f, S \ {c})

\* "np.nan_to_num(height, nan=np.nanmean(height))", the mean to the metre
NanFilled(e) ==
    LET valid == {c \in DOMAIN e : e[c] # NaN}
        mean == IF valid = {} THEN 0 ELSE SDiv(SumOver(e, valid), Cardinality(valid))
    IN  [c \in DOMAIN e |-> IF e[c] = NaN THEN mean ELSE e[c]]

\* np.degrees(np.arctan(x)) for x >= 0, in thousandths: the quadratic
\* 45 x + 15.66 x (1 - x) on [0, 1], within a quarter of a degree of the
\* arctangent and exact at 0 and 1, and 90 - arctan(1 / x) beyond
ArctanDeg(x) ==
    LET poly(y) == 45 * y + (1566 * y * (Scale - y)) \div (100 * Scale)
    IN  IF x <= Scale THEN poly(x) ELSE 90 * Scale - poly((Scale * Scale) \div x)

\* run_simulation's steep_block_thresh_deg
SteepDeg == 35

\* make_mars_from_geotiff_window(..., steep_block_thresh_deg=35.0,
\* block_by_slope=True): slope in degrees from the filled heights, nodata
\* cells and steep cells blocked
GeotiffLayers(e, h, w, m) ==
    LET gm == GradMag(NanFilled(e), h, w, m)
        slope_deg == [c \in DOMAIN gm |-> ArctanDeg(gm[c])]
    IN  [blocked |-> {c \in DOMAIN e : e[c] = NaN}
                     \cup {c \in DOMAIN e : slope_deg[c] >= SteepDeg * Scale},
         slope |-> slope_deg, rough |-> Roughness(gm), height |-> e,
         meters_per_cell |-> m]

\* ------------------------------------------------------------ heuristics
\* run_simulation.heuristic_fn / rover_astar_sim.euclid
heuristic_euclid(a, b) == Hypot(a[1] - b[1], a[2] - b[2])

\* "table": any caller-supplied function of the node (the goal is fixed per call)
\* app.astar_solve.h_m: ground distance between the cell centres
h_m(a, b) == HorizDist(a, b)

heuristic_fn(a, b) ==
    IF fns.heur = "euclid" THEN heuristic_euclid(a, b)
    ELSE IF fns.heur = "h_m" THEN h_m(a, b)
    ELSE fns.htab[a]

\* -------------------------------------------------------------- snapping
\* the cells of rows r0..r1 and columns c0..c1 in the order of
\* "for rr in range(r0, r1 + 1): for cc in range(c0, c1 + 1)"
BoxCells(r0, r1, c0, c1) ==
    [k \in 1 .. (r1 - r0 + 1) * (c1 - c0 + 1) |->
        <<r0 + ((k - 1) \div (c1 - c0 + 1)), c0 + ((k - 1) % (c1 - c0 + 1))>>]

\* a scan that keeps the first unblocked cell it meets, whatever its distance
RECURSIVE ScanBox_FirstFound(_, _, _, _, _)
ScanBox_FirstFound(rc, blocked, cells, i, best) ==
    IF i > Len(cells) THEN best
    ELSE LET v == cells[i]
             d2 == (v[1] - rc[1]) * (v[1] - rc[1]) + (v[2] - rc[2]) * (v[2] - rc[2])
         IN  IF v \notin blocked /\ best[1] = NoNode
             THEN ScanBox_FirstFound(rc, blocked, cells, i + 1, <<v, d2>>)
             ELSE ScanBox_FirstFound(rc, blocked, cells, i + 1, best)

\* the two scan loops of one radius: best and best_d2 after the cells from i on
RECURSIVE ScanBox(_, _, _, _, _)
ScanBox(rc, blocked, cells, i, best) ==
    IF i > Len(cells) THEN best
    ELSE LET v == cells[i]
             d2 == (v[1] - rc[1]) * (v[1] - rc[1]) + (v[2] - rc[2]) * (v[2] - rc[2])
         IN  IF v \notin blocked /\ d2 < best[2]
             THEN ScanBox(rc, blocked, cells, i + 1, <<v, d2>>)
             ELSE ScanBox(rc, blocked, cells, i + 1, best)

\* "for rad in range(1, max_radius)": the last radius is never scanned
RECURSIVE ScanRings_StopsEarly(_, _, _, _, _, _, _)
ScanRings_StopsEarly(rc, blocked, h, w, rad, maxrad, best) ==
    IF rad >= maxrad THEN rc
    ELSE LET cells == BoxCells(Max2(0, rc[1] - rad), Min2(h - 1, rc[1] + rad),
                               Max2(0, rc[2] - rad), Min2(w - 1, rc[2] + rad))
             b == ScanBox(rc, blocked, cells, 1, best)
         IN  IF b[1] # NoNode THEN b[1]
             ELSE ScanRings_StopsEarly(rc, blocked, h, w, rad + 1, maxrad, b)

\* "for rad in range(1, max_radius + 1)": best is kept from radius to radius
\* and the loop is left at the first radius after which best is set
RECURSIVE ScanRings(_, _, _, _, _, _, _)
ScanRings(rc, blocked, h, w, rad, maxrad, best) ==
    IF rad > maxrad THEN rc
    ELSE LET cells == BoxCells(Max2(0, rc[1] - rad), Min2(h - 1, rc[1] + rad),
                               Max2(0, rc[2] - rad), Min2(w - 1, rc[2] + rad))
             b == ScanBox(rc, blocked, cells, 1, best)
         IN  IF b[1] # NoNode THEN b[1]
             ELSE ScanRings(rc, blocked, h, w, rad + 1, maxrad, b)

\* connectivity.nearest_unblocked(rc, blocked, max_radius); best_d2 = 1e18
nearest_unblocked(rc, blocked, h, w, maxrad) ==
    IF rc \notin blocked THEN rc
    ELSE ScanRings(rc, blocked, h, w, 1, maxrad, <<NoNode, Inf>>)

\* ------------------------------------------------------------- open heap
\* a heap ordered by insertion alone: f and h are ignored
Less_ByCounter(a, b) == a[3] < b[3]

\* entries are tuples (f, h, counter, node); Python compares them
\* lexicographically and counter is unique, so node is never compared
Less(a, b) ==
    \/ a[1] < b[1]
    \/ a[1] = b[1] /\ a[2] < b[2]
    \/ a[1] = b[1] /\ a[2] = b[2] /\ a[3] < b[3]

\* heapq.heappop(openh)
HeapMin(S) == CHOOSE e \in S : \A x \in S \ {e} : Less(e, x)

\* the k entries with the largest keys
NSmallest_Largest(k, S) == {e \in S : Cardinality({x \in S : Less(e, x)}) < k}

\* heapq.nsmallest(k, openh); heapify
NSmallest(k, S) == {e \in S : Cardinality({x \in S : Less(x, e)}) < k}

\* --------------------------------------------------------------- astar
\* reconstruct without path.reverse()
RECURSIVE reconstruct_Unreversed(_, _)
reconstruct_Unreversed(par, v) ==
    IF v = NoNode THEN <<>>
    ELSE <<v>> \o reconstruct_Unreversed(par, IF v \in DOMAIN par THEN par[v] ELSE NoNode)

\* reconstruct(parent, goal): follow parent links until None, then reverse
RECURSIVE reconstruct(_, _)
reconstruct(par, v) ==
    IF v = NoNode THEN <<>>
    ELSE Append(reconstruct(par, IF v \in DOMAIN par THEN par[v] ELSE NoNode), v)

\* the search state the neighbor loop works on
LoopState ==
    [g |-> g, parent |-> parent, openh |-> openh \ {HeapMin(openh)},
     counter |-> counter, best_goal_cost |-> best_goal_cost,
     best_goal_node |-> best_goal_node, fnCalls |-> fnCalls, raised |-> FALSE]

\* one pass of "for v in neighbors_fn(u)" for the neighbor v, given the edge
\* cost c and alt = gu + c
RelaxTo(st, u, v, closedNow, c, alt) ==
    LET st1 == [st EXCEPT !.fnCalls.cost = @ + 1]
    IN  IF st.raised THEN st
        ELSE IF c = IndexError THEN [st1 EXCEPT !.raised = TRUE]
        ELSE IF c = NoneCost THEN st1
        ELSE IF v \in closedNow THEN st1
        ELSE IF v \notin DOMAIN st.g \/ alt < st.g[v]
        THEN LET hv == heuristic_fn(v, goal)
                 isBest == v = goal /\ (st.best_goal_cost = NoneCost
                                        \/ alt < st.best_goal_cost)
             IN  [st1 EXCEPT
                    !.g = (v :> alt) @@ @,
                    !.parent = (v :> u) @@ @,
                    !.counter = @ + 1,
                    !.openh = @ \cup {<<FAdd(alt, FMul(cfg.weight, hv)), hv,
                                        st.counter + 1, v>>},
                    !.best_goal_cost = IF isBest THEN alt ELSE @,
                    !.best_goal_node = IF isBest THEN v ELSE @,
                    !.fnCalls.heur = @ + 1]
        ELSE st1

\* Relax that adds the heuristic of v into g[v]
Relax_HeuristicInG(st, u, gu, v, closedNow) ==
    CHOOSE r \in {RelaxTo(st, u, v, closedNow, c,
                          FAdd(FAdd(gu, c), heuristic_fn(v, goal))) :
                      c \in {edge_cost_fn(u, v)}} : TRUE

\* "c = edge_cost_fn(u, v) ... alt = gu + c ..." (c: the cost, evaluated once)
Relax(st, u, gu, v, closedNow) ==
    CHOOSE r \in {RelaxTo(st, u, v, closedNow, c, FAdd(gu, c)) :
                      c \in {edge_cost_fn(u, v)}} : TRUE

\* the neighbor loop from its i-th pass on; each pass works on the state the
\* pass before left (x: that state, evaluated once)
RECURSIVE RelaxAll(_, _, _, _, _, _)
RelaxAll(st, u, gu, nbrs, i, closedNow) ==
    IF i > Len(nbrs) THEN st
    ELSE CHOOSE r \in {RelaxAll(Relax(x, u, gu, nbrs[i], closedNow),
                                u, gu, nbrs, i + 1, closedNow) : x \in {st}} : TRUE

\* beam pruning after the neighbor loop
Prune(S) ==
    IF cfg.beam_width # NoneOpt /\ Cardinality(S) > cfg.beam_width
    THEN NSmallest(cfg.beam_width, S)
    ELSE S

\* what the locals of a call that returned at "if start == goal" hold: nothing
NoSearch ==
    /\ openh' = {}
    /\ g' = <<>>
    /\ parent' = <<>>
    /\ closed' = {}
    /\ expansions' = 0
    /\ expanded_order' = <<>>
    /\ best_goal_cost' = NoneCost
    /\ best_goal_node' = NoNode
    /\ counter' = 0

\* the planner that runs the search: RoverApp.plan searches with WeightedCost,
\* astar_solve with edge_cost
Planner == IF fns.cost = "weighted" THEN "plan" ELSE "astar_solve"

NoRoute == [status |-> "none", path |-> <<>>, total |-> 0, legs |-> <<>>]

DropFirst(q) == IF q = <<>> THEN <<>> ELSE Tail(q)

\* StitchApp without "if i > 0: path = path[1:]"
StitchApp_KeepsJunction(rt, path, cost, i, last) ==
    IF path = NoPath
    THEN [status |-> "failed", path |-> <<>>, total |-> 0, legs |-> <<>>]
    ELSE [status |-> IF last THEN "ok" ELSE "partial",
          path |-> rt.path \o path,
          total |-> FAdd(rt.total, cost),
          legs |-> Append(rt.legs, cost)]

\* astar_solve: "if path is None: return error; if i > 0: path = path[1:];
\*               path_rc.extend(path); legs_cost.append(cost); totals += cost"
StitchApp(rt, path, cost, i, last) ==
    IF path = NoPath
    THEN [status |-> "failed", path |-> <<>>, total |-> 0, legs |-> <<>>]
    ELSE [status |-> IF last THEN "ok" ELSE "partial",
          path |-> rt.path \o (IF i > 0 THEN DropFirst(path) ELSE path),
          total |-> FAdd(rt.total, cost),
          legs |-> Append(rt.legs, cost)]

\* StitchPlan without the test on the junction: every leg is appended whole
StitchPlan_NoDedupe(rt, path, cost, i, last) ==
    IF path = NoPath
    THEN [status |-> "failed", path |-> <<>>, total |-> 0, legs |-> <<>>]
    ELSE [status |-> IF last THEN "ok" ELSE "partial",
          path |-> rt.path \o path,
          total |-> FAdd(rt.total, cost),
          legs |-> Append(rt.legs, cost)]

\* RoverApp.plan: "if not path: return; if full_path and path and
\*   full_path[-1] == path[0]: full_path.extend(path[1:]) else: extend(path);
\*   total_cost += leg_cost"
StitchPlan(rt, path, cost, i, last) ==
    IF path = NoPath
    THEN [status |-> "failed", path |-> <<>>, total |-> 0, legs |-> <<>>]
    ELSE [status |-> IF last THEN "ok" ELSE "partial",
          path |-> IF rt.path # <<>> /\ rt.path[Len(rt.path)] = path[1]
                   THEN rt.path \o DropFirst(path)
                   ELSE rt.path \o path,
          total |-> FAdd(rt.total, cost),
          legs |-> Append(rt.legs, cost)]

Stitch(rt, path, cost, i, last) ==
    IF Planner = "plan" THEN StitchPlan(rt, path, cost, i, last)
    ELSE StitchApp(rt, path, cost, i, last)

\* return path, cost, expansions, expanded_order, None; the planner's loop
\* body then takes the leg's result
Return(path, cost, n, ord, how) ==
    LET r == [path |-> path, cost |-> cost, expansions |-> n,
              expanded_order |-> ord, how |-> how]
    IN  /\ result' = r
        /\ pc' = "done"
        /\ hist' = Append(hist, [start |-> start', goal |-> goal', result |-> r])
        /\ route' = Stitch(route, path, cost, leg' - 1, leg' + 1 = Len(order))

\* ReturnBest that rebuilds a path to the goal even when none was observed
ReturnBest_NoNoneCheck(n, ord, how) ==
    Return(reconstruct(parent, goal),
           IF best_goal_cost # NoneCost THEN best_goal_cost ELSE Inf, n, ord, how)

\* ReturnBest that gives up the candidate: failure whenever the loop is left
ReturnBest_DropsCandidate(n, ord, how) == Return(NoPath, Inf, n, ord, how)

\* "if best_goal_node is not None: return reconstruct(...), best_goal_cost ...
\*  return None, float("inf"), ..."
ReturnBest(n, ord, how) ==
    IF best_goal_node # NoNode
    THEN Return(reconstruct(parent, best_goal_node), best_goal_cost, n, ord, how)
    ELSE Return(NoPath, Inf, n, ord, how)

\* Allocate with the goal candidate kept in a variable that outlives the call
Allocate_KeepsCandidate ==
    LET h0 == heuristic_fn(start', goal')
    IN  /\ counter' = 0
        /\ openh' = {<<FMul(cfg.weight, h0), h0, 0, start'>>}
        /\ g' = (start' :> 0)
        /\ parent' = (start' :> NoNode)
        /\ closed' = {}
        /\ expansions' = 0
        /\ expanded_order' = <<>>
        /\ UNCHANGED <<best_goal_cost, best_goal_node>>
        /\ fnCalls' = [heur |-> 1, nbr |-> 0, cost |-> 0]
        /\ pc' = "loop"
        /\ UNCHANGED <<result, hist, route>>

\* lines 46-57 of astar: every local of the search is allocated afresh
Allocate ==
    LET h0 == heuristic_fn(start', goal')
    IN  /\ counter' = 0
        /\ openh' = {<<FMul(cfg.weight, h0), h0, 0, start'>>}
        /\ g' = (start' :> 0)
        /\ parent' = (start' :> NoNode)
        /\ closed' = {}
        /\ expansions' = 0
        /\ expanded_order' = <<>>
        /\ best_goal_cost' = NoneCost
        /\ best_goal_node' = NoNode
        /\ fnCalls' = [heur |-> 1, nbr |-> 0, cost |-> 0]
        /\ pc' = "loop"
        /\ UNCHANGED <<result, hist, route>>

\* the planner's loop reaches its next leg (order[i], order[i+1]); it stops
\* at the first leg without a path
NextLeg ==
    /\ pc \in {"ready", "done"}
    /\ leg + 2 <= Len(order)
    /\ pc = "done" => result.path # NoPath
    /\ leg' = leg + 1
    /\ start' = order[leg + 1]
    /\ goal' = order[leg + 2]
    /\ UNCHANGED <<inputs, probe>>

\* Call without "if start == goal: return [start], 0.0, 0, [start], None"
Call_NoTrivialCase ==
    /\ NextLeg
    /\ Allocate

\* the planner calls astar for its next leg; astar's lines up to the loop
Call ==
    /\ NextLeg
    /\ IF start' = goal'
       THEN /\ NoSearch
            /\ fnCalls' = [heur |-> 0, nbr |-> 0, cost |-> 0]
            /\ Return(<<start'>>, 0, 0, <<start'>>, "trivial")
       ELSE Allocate

\* "if max_time_sec is not None and (time.time() - t0) > max_time_sec":
\* the clock is the environment's, so the budget may have run out at any check
TimeCap ==
    /\ pc = "loop"
    /\ openh # {}
    /\ cfg.max_time_sec # NoneOpt
    /\ UNCHANGED <<inputs, leg, start, goal, search, fnCalls, probe>>
    /\ ReturnBest(expansions, expanded_order, "time")

\* an early exit on the first candidate, whatever the bound
EpsilonHit_AnyCandidate(e) ==
    /\ cfg.epsilon # NoneOpt
    /\ best_goal_cost # NoneCost

\* "if epsilon is not None and best_goal_cost is not None:
\*      if best_goal_cost <= (1.0 + epsilon) * f"  (epsilon in tenths)
EpsilonHit(e) ==
    /\ cfg.epsilon # NoneOpt
    /\ best_goal_cost # NoneCost
    /\ FMul(10, best_goal_cost) <= FMul(10 + cfg.epsilon, e[1])

EpsilonExit ==
    /\ pc = "loop"
    /\ openh # {}
    /\ EpsilonHit(HeapMin(openh))
    /\ openh' = openh \ {HeapMin(openh)}
    /\ UNCHANGED <<inputs, leg, start, goal, g, parent, closed, expansions,
                   expanded_order, best_goal_cost, best_goal_node, counter, fnCalls,
                   probe>>
    /\ ReturnBest(expansions, expanded_order, "epsilon")

\* a stale entry counted as an expansion
StalePop_Counted ==
    /\ pc = "loop"
    /\ openh # {}
    /\ ~EpsilonHit(HeapMin(openh))
    /\ HeapMin(openh)[4] \in closed
    /\ openh' = openh \ {HeapMin(openh)}
    /\ expansions' = expansions + 1
    /\ UNCHANGED <<inputs, leg, start, goal, pc, g, parent, closed,
                   expanded_order, best_goal_cost, best_goal_node, counter,
                   result, fnCalls, hist, route, probe>>

\* "if u in closed: continue"
StalePop ==
    /\ pc = "loop"
    /\ openh # {}
    /\ ~EpsilonHit(HeapMin(openh))
    /\ HeapMin(openh)[4] \in closed
    /\ openh' = openh \ {HeapMin(openh)}
    /\ UNCHANGED <<inputs, leg, start, goal, pc, g, parent, closed, expansions,
                   expanded_order, best_goal_cost, best_goal_node, counter,
                   result, fnCalls, hist, route, probe>>

\* the cap test with > for >=: one expansion late
CapHit_Late == cfg.max_expansions # NoneOpt /\ expansions + 1 > cfg.max_expansions

\* "if max_expansions is not None and expansions >= max_expansions" after
\* "closed.add(u); expanded_order.append(u); expansions += 1"
CapHit == cfg.max_expansions # NoneOpt /\ expansions + 1 >= cfg.max_expansions

\* Fresh without "if u in closed: continue": a stale entry is expanded again
Fresh_Reexpands(u) ==
    /\ pc = "loop"
    /\ openh # {}
    /\ ~EpsilonHit(HeapMin(openh))
    /\ u = HeapMin(openh)[4]
    /\ closed' = closed \cup {u}
    /\ expanded_order' = Append(expanded_order, u)
    /\ expansions' = expansions + 1
    /\ UNCHANGED <<inputs, leg, start, goal, probe>>

\* the popped node is new: it is closed and counted
Fresh(u) ==
    /\ pc = "loop"
    /\ openh # {}
    /\ ~EpsilonHit(HeapMin(openh))
    /\ u = HeapMin(openh)[4]
    /\ u \notin closed
    /\ closed' = closed \cup {u}
    /\ expanded_order' = Append(expanded_order, u)
    /\ expansions' = expansions + 1
    /\ UNCHANGED <<inputs, leg, start, goal, probe>>

CapExit ==
    /\ openh # {}
    /\ Fresh(HeapMin(openh)[4])
    /\ CapHit
    /\ openh' = openh \ {HeapMin(openh)}
    /\ UNCHANGED <<g, parent, best_goal_cost, best_goal_node, counter, fnCalls>>
    /\ ReturnBest(expansions', expanded_order', "cap")

\* "if u == goal: return reconstruct(parent, u), g[u], ..."
GoalPop ==
    /\ openh # {}
    /\ Fresh(goal)
    /\ ~CapHit
    /\ openh' = openh \ {HeapMin(openh)}
    /\ UNCHANGED <<g, parent, best_goal_cost, best_goal_node, counter, fnCalls>>
    /\ IF goal \in DOMAIN g
       THEN Return(reconstruct(parent, goal), g[goal], expansions',
                   expanded_order', "goal")
       ELSE pc' = "raised" /\ UNCHANGED <<result, hist, route>>

\* "gu = g[u]", the neighbor loop and the beam pruning
ExpandNode(u) ==
    /\ Fresh(u)
    /\ ~CapHit
    /\ u # goal
    /\ \E st \in {IF u \in DOMAIN g
                   THEN RelaxAll([LoopState EXCEPT !.fnCalls.nbr = @ + 1],
                                 u, g[u], neighbors_fn(u), 1, closed')
                   ELSE [LoopState EXCEPT !.raised = TRUE]} :
           /\ g' = st.g
           /\ parent' = st.parent
           /\ counter' = st.counter
           /\ best_goal_cost' = st.best_goal_cost
           /\ best_goal_node' = st.best_goal_node
           /\ fnCalls' = st.fnCalls
           /\ openh' = IF st.raised THEN st.openh ELSE Prune(st.openh)
           /\ pc' = IF st.raised THEN "raised" ELSE "loop"
    /\ UNCHANGED <<result, hist, route>>

Expand ==
    /\ openh # {}
    /\ ExpandNode(HeapMin(openh)[4])

\* the while loop ends: "if best_goal_node is not None: return ...
\*                       return None, float("inf"), ..."
Drained ==
    /\ pc = "loop"
    /\ openh = {}
    /\ UNCHANGED <<inputs, leg, start, goal, search, fnCalls, probe>>
    /\ ReturnBest(expansions, expanded_order, "drained")

\* astar_solve's "Map waypoints -> rc (snap to nearest unblocked)";
\* RoverApp.plan takes the clicked cells as they are
Snap ==
    /\ pc = "snap"
    /\ order' = IF Planner = "astar_solve"
                THEN [i \in 1 .. Len(pts) |->
                        nearest_unblocked(pts[i], layers.blocked, H, W, max_radius)]
                ELSE pts
    /\ pc' = "ready"
    /\ UNCHANGED <<H, W, layers, fns, cfg, params, pts, max_radius, leg, start,
                   goal, search, result, fnCalls, hist, route, probe>>

Next ==
    \/ Call
    \/ TimeCap
    \/ EpsilonExit
    \/ StalePop
    \/ CapExit
    \/ GoalPop
    \/ Expand
    \/ Drained

\* ---------------------------------------------------------------- inputs
ZeroLayer(h, w) == [c \in Cells(h, w) |-> 0]

\* a terrain with the given blocked mask and roughness layer, flat and smooth
Terrain(h, w, b, r) ==
    [blocked |-> b, slope |-> ZeroLayer(h, w), rough |-> r,
     height |-> ZeroLayer(h, w), meters_per_cell |-> 1]

\* run_simulation: WeightedCost, ROI neighbors, row/col straight-line heuristic;
\* app.astar_solve: edge_cost, neighbors_8, ground-distance heuristic
SimFns == [cost |-> "weighted", nbr |-> "roi8", heur |-> "euclid", htab |-> <<>>]
AppFns == [cost |-> "slope", nbr |-> "n8", heur |-> "h_m", htab |-> <<>>]

\* roi_bounds' default pad around the waypoints, in cells
Pad == 200

\* the request's slope_weight, EnergyParams' downhill_regen_eff (percent) and
\* the pad of the region of interest, at their defaults
DefaultParams == [slope_weight |-> SlopeWeight, regen |-> RegenPct, pad |-> Pad]

\* no edge has been handed to the cost functions
NoProbe ==
    [u |-> NoNode, v |-> NoNode, cost |-> NoneCost, back |-> NoneCost, nbrs |-> <<>>]

Plain ==
    [weight |-> 1, epsilon |-> NoneOpt, max_expansions |-> NoneOpt,
     max_time_sec |-> NoneOpt, beam_width |-> NoneOpt]

\* astar's keyword arguments: each left at its default or set (epsilon in
\* tenths), at most two of them set in one call
Options == {"weight", "epsilon", "max_expansions", "max_time_sec", "beam_width"}

Configs ==
    {c \in [weight : {1, 2}, epsilon : {NoneOpt, 0, 5},
            max_expansions : {NoneOpt} \cup (0 .. MaxCap),
            max_time_sec : {NoneOpt, 1},
            beam_width : {NoneOpt} \cup (1 .. MaxBeam)] :
        Cardinality({k \in Options : c[k] # Plain[k]}) <= 2}

Column(h, c) == {<<r, c>> : r \in 0 .. h - 1}

InitSearch ==
    /\ leg = 0
    /\ start = NoNode
    /\ goal = NoNode
    /\ pc = "ready"
    /\ openh = {}
    /\ g = <<>>
    /\ parent = <<>>
    /\ closed = {}
    /\ expansions = 0
    /\ expanded_order = <<>>
    /\ best_goal_cost = NoneCost
    /\ best_goal_node = NoNode
    /\ counter = 0
    /\ result = [path |-> NoPath, cost |-> 0, expansions |-> 0,
                 expanded_order |-> <<>>, how |-> "none"]
    /\ fnCalls = [heur |-> 0, nbr |-> 0, cost |-> 0]
    /\ hist = <<>>
    /\ route = NoRoute
    /\ params = DefaultParams
    /\ probe = NoProbe
    /\ pts = order
    /\ max_radius = MaxRadius

\* the blocked masks: column 1 is a wall with any gaps, and the north-east
\* corner is free or blocked
Walls(h, w) == SUBSET (Column(h, 1) \cup {<<0, w - 1>>})

\* one astar call, with any arguments, from the west edge to any cell
Init ==
    /\ H = GridH
    /\ W = GridW
    /\ layers \in {Terrain(GridH, GridW, b, ZeroLayer(GridH, GridW)) :
                     b \in Walls(GridH, GridW)}
    /\ fns \in {SimFns, AppFns}
    /\ cfg \in Configs
    /\ order \in {<<a, b>> : a \in Column(GridH, 0), b \in Cells(GridH, GridW)}
    /\ InitSearch

Spec == Init /\ [][Next]_vars

\* a heuristic that is zero except for one spike: h(c) = k, in whole units
Spike(h, w, c, k) == [v \in Cells(h, w) |-> IF v = c THEN k * Scale ELSE 0]

\* caller-supplied heuristics: none, or a spike somewhere in column 1
Tables(h, w) ==
    {ZeroLayer(h, w)} \cup {Spike(h, w, c, k) : c \in Column(h, 1), k \in 1 .. MaxSpike}

\* WeightedCost over 4-connected ROI neighbors, edge_cost over neighbors_8,
\* each with the straight-line heuristic or a caller-supplied one
OptFns(h, w) ==
    {[cost |-> "weighted", nbr |-> "roi4", heur |-> "euclid", htab |-> <<>>],
     [cost |-> "slope", nbr |-> "n8", heur |-> "h_m", htab |-> <<>>]}
    \cup {[cost |-> "weighted", nbr |-> "roi4", heur |-> "table", htab |-> t] :
            t \in Tables(h, w)}
    \cup {[cost |-> "slope", nbr |-> "n8", heur |-> "table", htab |-> t] :
            t \in Tables(h, w)}

\* rough ground anywhere on the west edge and in the south-east corner;
\* blocked cells in the north-east corner and at the foot of column 1
OptTerrains(h, w) ==
    {Terrain(h, w, b, [c \in Cells(h, w) |-> IF c \in r THEN Scale ELSE 0]) :
        b \in SUBSET {<<0, w - 1>>, <<h - 1, 1>>},
        r \in SUBSET (Column(h, 0) \cup {<<h - 1, w - 1>>})}

InitOptWith(configs) ==
    /\ H = GridH
    /\ W = GridW
    /\ layers \in OptTerrains(GridH, GridW)
    /\ fns \in OptFns(GridH, GridW)
    /\ cfg \in configs
    /\ order \in {<<a, b>> : a \in Column(GridH, 0), b \in Column(GridH, GridW - 1)}
    /\ InitSearch

\* plain A*: weight 1, no epsilon, no beam, no caps
NextOpt ==
    \/ Call
    \/ StalePop
    \/ GoalPop
    \/ Expand
    \/ Drained

InitOpt == InitOptWith({Plain})
SpecOpt == InitOpt /\ [][NextOpt]_vars

\* A* with an epsilon bound of 0 or 0.5 and nothing else set
NextEps ==
    \/ Call
    \/ EpsilonExit
    \/ StalePop
    \/ Expand
    \/ Drained

InitEps == InitOptWith({[Plain EXCEPT !.epsilon = e] : e \in {0, 5}})
SpecEps == InitEps /\ [][NextEps]_vars

\* a route of MaxCalls legs between two opposite corners, legs of no
\* length included; every leg is searched with the same functions and arguments
LegStops == {<<GridH - 1, 0>>, <<0, GridW - 1>>}

LegConfigs ==
    {Plain,
     [Plain EXCEPT !.weight = 2],
     [Plain EXCEPT !.epsilon = 5],
     [Plain EXCEPT !.max_expansions = MaxCap],
     [Plain EXCEPT !.beam_width = 1]}

InitLegs ==
    /\ H = GridH
    /\ W = GridW
    /\ layers \in {Terrain(GridH, GridW, b, ZeroLayer(GridH, GridW)) :
                     b \in Walls(GridH, GridW)}
    /\ fns \in {SimFns, AppFns}
    /\ cfg \in LegConfigs
    /\ order \in [1 .. MaxCalls + 1 -> LegStops]
    /\ InitSearch

\* no wall-clock budget
NextLegs ==
    \/ Call
    \/ EpsilonExit
    \/ StalePop
    \/ CapExit
    \/ GoalPop
    \/ Expand
    \/ Drained

SpecLegs == InitLegs /\ [][NextLegs]_vars

\* the scenario grid: ScenN x ScenN, open, with row 2 blocked except (2,2),
\* or with row 2 blocked throughout
ScenGap == <<2, 2>>
ScenWall == {<<2, c>> : c \in 0 .. ScenN - 1} \ {ScenGap}

ScenConfigs ==
    {Plain,
     [Plain EXCEPT !.weight = 2],
     [Plain EXCEPT !.epsilon = 0],
     [Plain EXCEPT !.epsilon = 5],
     [Plain EXCEPT !.max_time_sec = 1]}
    \cup {[Plain EXCEPT !.max_expansions = ScenN * k] : k \in 1 .. MaxCap}
    \cup {[Plain EXCEPT !.beam_width = k] : k \in 1 .. MaxBeam}

\* one search from the north edge to the south edge
InitScen ==
    /\ H = ScenN
    /\ W = ScenN
    /\ layers \in {Terrain(ScenN, ScenN, b, ZeroLayer(ScenN, ScenN)) :
                     b \in {{}, ScenWall, ScenWall \cup {ScenGap}}}
    /\ fns \in {SimFns, AppFns}
    /\ cfg \in ScenConfigs
    /\ order \in {<<<<0, a>>, <<ScenN - 1, b>>>> :
                    a \in {0, ScenN - 1}, b \in {0, ScenN - 1}}
    /\ InitSearch

SpecScen == InitScen /\ [][Next]_vars

\* nearest_unblocked on any blocked mask, for one waypoint and any max_radius
\* up to MaxRadius
InitSnap ==
    /\ H = GridH
    /\ W = GridW
    /\ layers \in {Terrain(GridH, GridW, b, ZeroLayer(GridH, GridW)) :
                     b \in SUBSET Cells(GridH, GridW)}
    /\ fns = AppFns
    /\ cfg = Plain
    /\ pts \in {<<a>> : a \in Cells(GridH, GridW)}
    /\ max_radius \in 0 .. MaxRadius
    /\ order = <<>>
    /\ leg = 0
    /\ start = NoNode
    /\ goal = NoNode
    /\ pc = "snap"
    /\ openh = {}
    /\ g = <<>>
    /\ parent = <<>>
    /\ closed = {}
    /\ expansions = 0
    /\ expanded_order = <<>>
    /\ best_goal_cost = NoneCost
    /\ best_goal_node = NoNode
    /\ counter = 0
    /\ result = [path |-> NoPath, cost |-> 0, expansions |-> 0,
                 expanded_order |-> <<>>, how |-> "none"]
    /\ fnCalls = [heur |-> 0, nbr |-> 0, cost |-> 0]
    /\ hist = <<>>
    /\ route = NoRoute
    /\ params = DefaultParams
    /\ probe = NoProbe

NextSnap == Snap

SpecSnap == InitSnap /\ [][NextSnap]_vars

\* the route planners: MaxCalls waypoints clicked on two opposite corners, the
\* two western columns blocked in any pattern
PlanStops == {<<0, 0>>, <<GridH - 1, GridW - 1>>}

InitPlan ==
    /\ H = GridH
    /\ W = GridW
    /\ layers \in {Terrain(GridH, GridW, b, ZeroLayer(GridH, GridW)) :
                     b \in SUBSET (Column(GridH, 0) \cup Column(GridH, 1))}
    /\ fns \in {SimFns, AppFns}
    /\ cfg \in {Plain, [Plain EXCEPT !.weight = 2]}
    /\ pts \in [1 .. MaxCalls -> PlanStops]
    /\ max_radius \in 1 .. MaxRadius
    /\ order = <<>>
    /\ leg = 0
    /\ start = NoNode
    /\ goal = NoNode
    /\ pc = "snap"
    /\ openh = {}
    /\ g = <<>>
    /\ parent = <<>>
    /\ closed = {}
    /\ expansions = 0
    /\ expanded_order = <<>>
    /\ best_goal_cost = NoneCost
    /\ best_goal_node = NoNode
    /\ counter = 0
    /\ result = [path |-> NoPath, cost |-> 0, expansions |-> 0,
                 expanded_order |-> <<>>, how |-> "none"]
    /\ fnCalls = [heur |-> 0, nbr |-> 0, cost |-> 0]
    /\ hist = <<>>
    /\ route = NoRoute
    /\ params = DefaultParams
    /\ probe = NoProbe

NextPlan ==
    \/ Snap
    \/ Call
    \/ StalePop
    \/ GoalPop
    \/ Expand
    \/ Drained

SpecPlan == InitPlan /\ [][NextPlan]_vars

\* the cost function applied to one edge of the grid and to its reverse
Probe ==
    /\ pc = "probe"
    /\ \E u \in Grid : \E i \in DOMAIN neighbors_8(u, H, W) :
           LET v == neighbors_8(u, H, W)[i]
           IN  probe' = [u |-> u, v |-> v, cost |-> edge_cost_fn(u, v),
                         back |-> edge_cost_fn(v, u), nbrs |-> <<>>]
    /\ pc' = "probed"
    /\ UNCHANGED <<inputs, leg, start, goal, search, result, fnCalls, hist, route>>

\* elevation windows: a plane tilted by a metres per row and b per column,
\* with a ridge k metres high along column 1
Windows(h, w) ==
    {[c \in Cells(h, w) |-> a * c[1] + b * c[2] + (IF c[2] = 1 THEN k ELSE 0)] :
        a \in 0 .. MaxTilt, b \in 0 .. MaxTilt, k \in 0 .. MaxTilt}

\* cell spacings of the window in metres
Spacings == {2, 30}

\* slope_weight as the request gives it, downhill_regen_eff in percent
SlopeWeights == {-5, 0, SlopeWeight}
RegenEffs == {0, RegenPct, 50}

\* the three cost functions on the layers their planners build: WeightedCost
\* on run_simulation's layers, edge_cost and physical_energy_cost_fn on the
\* layers astar_solve derives from an elevation window
InitCost ==
    /\ H = GridH
    /\ W = GridW
    /\ fns \in {SimFns, AppFns, [AppFns EXCEPT !.cost = "energy"]}
    /\ IF fns.cost = "weighted"
       THEN /\ layers \in OptTerrains(GridH, GridW)
            /\ params = DefaultParams
       ELSE /\ layers \in {DerivedLayers(e, GridH, GridW, m) :
                              e \in Windows(GridH, GridW), m \in Spacings}
            /\ params \in [slope_weight : SlopeWeights, regen : RegenEffs, pad : {Pad}]
    /\ cfg = Plain
    /\ pts = <<>>
    /\ max_radius = MaxRadius
    /\ order = <<>>
    /\ leg = 0
    /\ start = NoNode
    /\ goal = NoNode
    /\ pc = "probe"
    /\ openh = {}
    /\ g = <<>>
    /\ parent = <<>>
    /\ closed = {}
    /\ expansions = 0
    /\ expanded_order = <<>>
    /\ best_goal_cost = NoneCost
    /\ best_goal_node = NoNode
    /\ counter = 0
    /\ result = [path |-> NoPath, cost |-> 0, expansions |-> 0,
                 expanded_order |-> <<>>, how |-> "none"]
    /\ fnCalls = [heur |-> 0, nbr |-> 0, cost |-> 0]
    /\ hist = <<>>
    /\ route = NoRoute
    /\ probe = NoProbe

NextCost == Probe

\* the neighbor generator applied to one cell of the grid, inside the region
\* of interest when there is one
Adjacent ==
    /\ pc = "probe"
    /\ \E u \in Grid :
           /\ fns.nbr # "n8" =>
                  /\ roi_bounds[1] <= u[1] /\ u[1] <= roi_bounds[2]
                  /\ roi_bounds[3] <= u[2] /\ u[2] <= roi_bounds[4]
           /\ probe' = [NoProbe EXCEPT !.u = u, !.nbrs = neighbors_fn(u)]
    /\ pc' = "listed"
    /\ UNCHANGED <<inputs, leg, start, goal, search, result, fnCalls, hist, route>>

\* pads of the region of interest, in cells
Pads == {0, 1, Pad}

\* the neighbor generators of the two planners, on an open grid or with
\* column 1 blocked, the region of interest built around any two waypoints
InitNbr ==
    /\ H = GridH
    /\ W = GridW
    /\ layers \in {Terrain(GridH, GridW, b, ZeroLayer(GridH, GridW)) :
                     b \in {{}, Column(GridH, 1)}}
    /\ fns \in {AppFns, SimFns, [SimFns EXCEPT !.nbr = "roi4"]}
    /\ params \in {[DefaultParams EXCEPT !.pad = p] : p \in Pads}
    /\ cfg = Plain
    /\ pts \in [1 .. 2 -> Cells(GridH, GridW)]
    /\ order = pts
    /\ max_radius = MaxRadius
    /\ leg = 0
    /\ start = NoNode
    /\ goal = NoNode
    /\ pc = "probe"
    /\ openh = {}
    /\ g = <<>>
    /\ parent = <<>>
    /\ closed = {}
    /\ expansions = 0
    /\ expanded_order = <<>>
    /\ best_goal_cost = NoneCost
    /\ best_goal_node = NoNode
    /\ counter = 0
    /\ result = [path |-> NoPath, cost |-> 0, expansions |-> 0,
                 expanded_order |-> <<>>, how |-> "none"]
    /\ fnCalls = [heur |-> 0, nbr |-> 0, cost |-> 0]
    /\ hist = <<>>
    /\ route = NoRoute
    /\ probe = NoProbe

NextNbr == Adjacent

\* an elevation window that has been read and not yet turned into layers
Raw(e, h, w, m) ==
    [blocked |-> {}, slope |-> ZeroLayer(h, w), rough |-> ZeroLayer(h, w),
     height |-> e, meters_per_cell |-> m]

\* the planner derives its layers from the window it has read
Derive ==
    /\ pc = "derive"
    /\ layers' = IF Planner = "plan"
                 THEN GeotiffLayers(layers.height, H, W, layers.meters_per_cell)
                 ELSE DerivedLayers(layers.height, H, W, layers.meters_per_cell)
    /\ pc' = "derived"
    /\ UNCHANGED <<H, W, fns, cfg, params, pts, max_radius, order, leg, start,
                   goal, search, result, fnCalls, hist, route, probe>>

\* the windows three times as steep
SteepWindows(h, w) == {[c \in Cells(h, w) |-> 3 * e[c]] : e \in Windows(h, w)}

\* a window with the sample at c missing
Without(e, c) == [e EXCEPT ![c] = NaN]

\* cell spacings at which the steep windows have slopes at astar_solve's
\* default threshold, and above and below it
MaskSpacings == {2, 5, 30}

\* the windows the planners read: read_dem_window has filled the missing
\* samples of astar_solve's window, RoverApp.load_tif's may miss one sample
InitMask ==
    /\ H = GridH
    /\ W = GridW
    /\ fns \in {SimFns, AppFns}
    /\ layers \in {Raw(e, GridH, GridW, m) :
                     e \in SteepWindows(GridH, GridW)
                           \cup (IF fns.cost = "weighted"
                                 THEN {Without(x, c) : x \in SteepWindows(GridH, GridW),
                                                       c \in Column(GridH, 1)}
                                 ELSE {}),
                     m \in MaskSpacings}
    /\ params = DefaultParams
    /\ cfg = Plain
    /\ pts = <<>>
    /\ order = <<>>
    /\ max_radius = MaxRadius
    /\ leg = 0
    /\ start = NoNode
    /\ goal = NoNode
    /\ pc = "derive"
    /\ openh = {}
    /\ g = <<>>
    /\ parent = <<>>
    /\ closed = {}
    /\ expansions = 0
    /\ expanded_order = <<>>
    /\ best_goal_cost = NoneCost
    /\ best_goal_node = NoNode
    /\ counter = 0
    /\ result = [path |-> NoPath, cost |-> 0, expansions |-> 0,
                 expanded_order |-> <<>>, how |-> "none"]
    /\ fnCalls = [heur |-> 0, nbr |-> 0, cost |-> 0]
    /\ hist = <<>>
    /\ route = NoRoute
    /\ probe = NoProbe

NextMask == Derive

SpecMask == InitMask /\ [][NextMask]_vars

\* "height is None": no elevation layer
NoHeight == <<>>

\* what the construction of the terrain grid and the cost model raises before
\* any search: make_mars_from_geotiff_window's ValueError on an empty window,
\* _compute_slope_deg's on a missing height, and np.gradient's on an axis of
\* fewer than two samples, in either planner
ConstructionRaises ==
    \/ Planner = "plan" /\ (H < 1 \/ W < 1)
    \/ Planner = "plan" /\ layers.height = NoHeight
    \/ H < 2 \/ W < 2

\* the planner builds its layers and its cost function from the request, then
\* goes on to the searches
Construct ==
    /\ pc = "construct"
    /\ pc' = IF ConstructionRaises THEN "config_error" ELSE "ready"
    /\ UNCHANGED <<inputs, leg, start, goal, search, result, fnCalls, hist, route,
                   probe>>

\* grid heights, the empty grid included, and the cell spacings in metres
\* handed to EnergyParams and edge_cost_factory, 0 included
Heights == {0, GridH}
CellSizes == {0, 1}

\* a flat terrain h x w with the blocked mask b, cells m metres apart, with or
\* without its elevation layer
Given(h, w, b, m, e) ==
    [Terrain(h, w, b, ZeroLayer(h, w)) EXCEPT
        !.meters_per_cell = m,
        !.height = IF e THEN @ ELSE NoHeight]

\* a request for a route of two legs between two corners, on any grid and
\* spacing, the two western columns blocked in any pattern; the elevation may be missing where the layers are built from a
\* height array, and run_simulation's spacing is an absolute pixel size
InitConf ==
    /\ H \in Heights
    /\ W = GridW
    /\ fns \in {SimFns, AppFns, [AppFns EXCEPT !.cost = "energy"]}
    /\ layers \in {Given(H, GridW, b, m, e) :
                     b \in SUBSET (Column(H, 0) \cup Column(H, 1)),
                     m \in IF fns.cost = "weighted" THEN {1} ELSE CellSizes,
                     e \in IF fns.cost = "weighted" THEN BOOLEAN ELSE {TRUE}}
    /\ params = DefaultParams
    /\ cfg \in {Plain, [Plain EXCEPT !.weight = 2]}
    /\ pts \in [1 .. 3 -> LegStops]
    /\ order = pts
    /\ max_radius = MaxRadius
    /\ leg = 0
    /\ start = NoNode
    /\ goal = NoNode
    /\ pc = "construct"
    /\ openh = {}
    /\ g = <<>>
    /\ parent = <<>>
    /\ closed = {}
    /\ expansions = 0
    /\ expanded_order = <<>>
    /\ best_goal_cost = NoneCost
    /\ best_goal_node = NoNode
    /\ counter = 0
    /\ result = [path |-> NoPath, cost |-> 0, expansions |-> 0,
                 expanded_order |-> <<>>, how |-> "none"]
    /\ fnCalls = [heur |-> 0, nbr |-> 0, cost |-> 0]
    /\ hist = <<>>
    /\ route = NoRoute
    /\ probe = NoProbe

NextConf ==
    \/ Construct
    \/ Call
    \/ StalePop
    \/ GoalPop
    \/ Expand
    \/ Drained

SpecConf == InitConf /\ [][NextConf]_vars

SpecNbr == InitNbr /\ [][NextNbr]_vars

SpecCost == InitCost /\ [][NextCost]_vars

\* ---------------------------------------------------------------- claims
Returned == pc = "done"
SeqToSet(q) == {q[i] : i \in 1 .. Len(q)}

\* (u, v) is an edge of the searched graph
IsEdge(u, v) == v \in SeqToSet(neighbors_fn(u)) /\ edge_cost_fn(u, v) # NoneCost

\* C1: whenever astar returns a path for start # goal, the path starts at
\* start, ends at goal, and every consecutive pair is an edge of the searched
\* graph (yielded by neighbors_fn, cost not None), whichever return is taken.
C1_PathIsWalk ==
    (Returned /\ start # goal /\ result.path # NoPath) =>
        /\ result.path[1] = start
        /\ result.path[Len(result.path)] = goal
        /\ \A i \in 1 .. Len(result.path) - 1 :
               IsEdge(result.path[i], result.path[i + 1])

\* a path of at least two steps returned by the epsilon early exit
C1_Witness ==
    Returned /\ result.how = "epsilon" /\ Len(result.path) >= 3

\* The reference shortest-path computation: Bellman-Ford over the same
\* neighbors and edge costs, as distances to the goal, kept as a set of
\* <<node, distance>> pairs.  NoneCost marks a node from which the goal cannot
\* be reached through edges whose cost is not None.
RefGet(D, v) == (CHOOSE p \in D : p[1] = v)[2]

RefRelax(D) ==
    {<<u, LET via == {FAdd(edge_cost_fn(u, v), RefGet(D, v)) :
                        v \in {x \in SeqToSet(neighbors_fn(u)) \cap Grid :
                                 edge_cost_fn(u, x) # NoneCost
                                 /\ RefGet(D, x) # NoneCost}}
              all == via \cup (IF RefGet(D, u) # NoneCost THEN {RefGet(D, u)} ELSE {})
          IN  IF all = {} THEN NoneCost
              ELSE CHOOSE m \in all : \A x \in all : m <= x>> : u \in Grid}

RECURSIVE RefIterate(_, _)
RefIterate(D, k) == IF k = 0 THEN D ELSE RefIterate(RefRelax(D), k - 1)

RefDistToGoal ==
    LET D == RefIterate({<<v, IF v = goal THEN 0 ELSE NoneCost>> : v \in Grid},
                        Cardinality(Grid))
    IN  [v \in Grid |-> RefGet(D, v)]

\* h never overestimates the cost of reaching the goal
Admissible ==
    LET d == RefDistToGoal
    IN  \A v \in Grid : d[v] # NoneCost => heuristic_fn(v, goal) <= d[v]

\* h(goal) = 0 and h(u) <= cost(u, v) + h(v) on every edge
Consistent ==
    /\ heuristic_fn(goal, goal) = 0
    /\ \A u \in Grid : \A v \in SeqToSet(neighbors_fn(u)) :
           edge_cost_fn(u, v) # NoneCost =>
               heuristic_fn(u, goal) <= FAdd(edge_cost_fn(u, v), heuristic_fn(v, goal))

PlainSearch ==
    /\ cfg.weight = 1
    /\ cfg.epsilon = NoneOpt
    /\ cfg.beam_width = NoneOpt
    /\ cfg.max_expansions = NoneOpt
    /\ cfg.max_time_sec = NoneOpt

\* astar's answer agrees with the reference: the same cost, and no path
\* exactly when the goal is unreachable
AgreesWithReference ==
    LET d == RefDistToGoal[start]
    IN  IF d = NoneCost
        THEN result.path = NoPath /\ result.cost = Inf
        ELSE result.path # NoPath /\ result.cost = d

\* C2 as claimed: with weight 1, no epsilon, beam or caps, and an admissible
\* heuristic, astar's cost equals the reference shortest-path cost and astar
\* fails exactly when the goal is unreachable.
C2_AdmissibleOptimal ==
    (Returned /\ start # goal /\ PlainSearch /\ Admissible) => AgreesWithReference

\* C2 amended: the same for a consistent heuristic.
C2_ConsistentOptimal ==
    (Returned /\ start # goal /\ PlainSearch /\ Consistent) => AgreesWithReference

\* a consistent, non-zero caller-supplied heuristic on rough terrain, with a
\* path found that is not the straight line
C2_Witness ==
    /\ Returned
    /\ start # goal
    /\ PlainSearch
    /\ Consistent
    /\ fns.heur = "table"
    /\ \E v \in Grid : fns.htab[v] > 0
    /\ result.path # NoPath
    /\ Len(result.path) >= 4

\* C3: in any returned path no cell after the first is blocked.
C3_BlockedInvariance ==
    (Returned /\ result.path # NoPath) =>
        \A i \in 2 .. Len(result.path) : result.path[i] \notin layers.blocked

\* C4: when the open set empties and the goal was never relaxed, astar
\* returns path None, cost infinity and the expansion count; it never raises.
C4_DrainedIsFailure ==
    /\ pc # "raised"
    /\ (Returned /\ result.how = "drained" /\ goal \notin DOMAIN g) =>
           /\ result.path = NoPath
           /\ result.cost = Inf
           /\ result.expansions = Cardinality(closed)

\* an unblocked goal walled off from start: the search drained after
\* expanding everything it could reach
C4_Witness ==
    /\ Returned
    /\ result.how = "drained"
    /\ goal \notin DOMAIN g
    /\ goal \notin layers.blocked
    /\ result.expansions >= 2

\* C5: when the expansion cap or the time budget expires, astar returns the
\* goal's current candidate (its parent chain and g) if the goal has been
\* relaxed, else failure (None, infinity); with max_expansions = 1 and a goal
\* that is not a neighbor of start the result is failure.
C5_BudgetExpiry ==
    /\ (Returned /\ result.how \in {"cap", "time"}) =>
           IF goal \in DOMAIN g
           THEN result.path = reconstruct(parent, goal) /\ result.cost = g[goal]
           ELSE result.path = NoPath /\ result.cost = Inf
    /\ (Returned /\ cfg.max_expansions = 1 /\ start # goal
        /\ goal \notin SeqToSet(neighbors_fn(start))) =>
           result.path = NoPath /\ result.cost = Inf

\* the cap expired after the goal had been relaxed: a partial result
C5_Witness ==
    /\ Returned
    /\ result.how = "cap"
    /\ goal \in DOMAIN g
    /\ result.path # NoPath
    /\ result.expansions = 2

\* C6: for start = goal astar returns [start], cost 0, zero expansions, and
\* calls none of neighbors_fn, edge_cost_fn, heuristic_fn, whatever the
\* keyword arguments.
C6_Trivial ==
    (pc \in {"loop", "done", "raised"} /\ start = goal) =>
        /\ pc = "done"
        /\ result.path = <<start>>
        /\ result.cost = 0
        /\ result.expansions = 0
        /\ fnCalls = [heur |-> 0, nbr |-> 0, cost |-> 0]

\* a trivial call made with a cap, a beam, an epsilon or a weight set
C6_Witness ==
    Returned /\ start = goal /\ cfg.max_expansions = 0 /\ cfg.beam_width = 1

EpsilonSearch ==
    /\ cfg.weight = 1
    /\ cfg.epsilon # NoneOpt
    /\ cfg.beam_width = NoneOpt
    /\ cfg.max_expansions = NoneOpt
    /\ cfg.max_time_sec = NoneOpt

\* cost <= (1 + epsilon) * optimal, epsilon in tenths
WithinEpsilon ==
    LET d == RefDistToGoal[start]
    IN  d # NoneCost /\ FMul(10, result.cost) <= FMul(10 + cfg.epsilon, d)

\* C7 as claimed: with an epsilon bound, weight 1, an admissible heuristic and
\* no beam or caps, every returned path costs at most (1 + epsilon) * optimal.
C7_AdmissibleEpsilon ==
    (Returned /\ start # goal /\ EpsilonSearch /\ Admissible
     /\ result.path # NoPath) => WithinEpsilon

\* C7 amended: the same for a consistent heuristic.
C7_ConsistentEpsilon ==
    (Returned /\ start # goal /\ EpsilonSearch /\ Consistent
     /\ result.path # NoPath) => WithinEpsilon

\* an early exit that returned a path costlier than the optimum, within the bound
C7_Witness ==
    /\ Returned
    /\ start # goal
    /\ EpsilonSearch
    /\ Consistent
    /\ result.how = "epsilon"
    /\ result.cost > RefDistToGoal[start]

\* C8: two astar calls with the same start and goal (the functions and the
\* arguments are the same for every call of a run; no wall-clock budget)
\* return the same path, cost, expansion count and expansion order, also when
\* other searches ran in between.
C8_Deterministic ==
    \A i \in DOMAIN hist : \A j \in DOMAIN hist :
        (hist[i].start = hist[j].start /\ hist[i].goal = hist[j].goal) =>
            hist[i].result = hist[j].result

\* the same leg searched a second time after the opposite leg, with a path of
\* several steps and an early exit
C8_Witness ==
    /\ Len(hist) >= 3
    /\ hist[1].start = hist[3].start
    /\ hist[1].goal = hist[3].goal
    /\ hist[2].start = hist[1].goal
    /\ hist[2].goal = hist[1].start
    /\ Len(hist[3].result.path) >= 3
    /\ hist[3].result.how = "epsilon"

ScenarioA ==
    /\ layers.blocked = {}
    /\ fns = SimFns
    /\ cfg = Plain
    /\ start = <<0, 0>>
    /\ goal = <<ScenN - 1, ScenN - 1>>

Diagonal == [i \in 1 .. ScenN |-> <<i - 1, i - 1>>]

\* C9: on the open ScenN x ScenN grid (5 x 5) with zero layers, 8-connected
\* neighbors, the straight-line heuristic and weight 1, the search from (0,0)
\* to the opposite corner under WeightedCost returns the diagonal, of
\* ScenN - 1 diagonal steps, at cost (ScenN - 1) * sqrt(2) * w_dist.
C9_ScenarioA ==
    (Returned /\ ScenarioA) =>
        /\ result.path = Diagonal
        /\ result.cost = (ScenN - 1) * Sqrt2 * W_DIST

C9_Witness == Returned /\ ScenarioA /\ result.how = "goal"

\* C10: with row 2 blocked except (2,2), and start and goal on opposite sides
\* of it, every returned path contains (2,2) and no other cell of row 2,
\* under either cost model and any keyword arguments.
C10_ScenarioB ==
    (Returned /\ layers.blocked = ScenWall /\ result.path # NoPath) =>
        /\ ScenGap \in SeqToSet(result.path)
        /\ SeqToSet(result.path) \cap ScenWall = {}

Cheb(a, b) == Max2(Abs(a[1] - b[1]), Abs(a[2] - b[2]))
Dist2(a, b) == (a[1] - b[1]) * (a[1] - b[1]) + (a[2] - b[2]) * (a[2] - b[2])
Snapped == pc # "snap" /\ Planner = "astar_solve" /\ Len(order) = Len(pts)

\* the unblocked cells of the grid within Chebyshev distance max_radius of c
FreeNear(c) == {v \in Grid \ layers.blocked : Cheb(v, c) <= max_radius}

\* C11: nearest_unblocked returns its input exactly when the input is
\* unblocked or no unblocked cell of the grid lies within Chebyshev distance
\* max_radius of it; otherwise the returned cell is in the grid and unblocked.
C11_SnapUnchangedIff ==
    Snapped =>
        \A i \in 1 .. Len(pts) :
            /\ order[i] = pts[i] <=>
                   (pts[i] \notin layers.blocked \/ FreeNear(pts[i]) = {})
            /\ order[i] # pts[i] =>
                   (order[i] \in Grid /\ order[i] \notin layers.blocked)

\* a blocked waypoint moved to a free cell, and one that stays where it is
\* although the grid has free cells, all of them too far
C11_Witness ==
    /\ Snapped
    /\ pts[1] \in layers.blocked
    /\ order[1] = pts[1]
    /\ Grid \ layers.blocked # {}

C13_BlockedWaypointNoRoute ==
    (pc # "snap" /\ \E i \in 1 .. Len(order) : order[i] \in layers.blocked) =>
        route.status # "ok"

\* the legs searched so far are the consecutive waypoint pairs, in order
LegsInOrder ==
    \A k \in 1 .. Len(hist) :
        hist[k].start = order[k] /\ hist[k].goal = order[k + 1]

RECURSIVE Concat(_)
Concat(k) ==
    IF k = 0 THEN <<>>
    ELSE IF k = 1 THEN hist[1].result.path
    ELSE Concat(k - 1) \o Tail(hist[k].result.path)

RECURSIVE SumCost(_)
SumCost(k) == IF k = 0 THEN 0 ELSE FAdd(SumCost(k - 1), hist[k].result.cost)

\* q visits the cells of ws in their order
RECURSIVE Visits(_, _, _, _)
Visits(q, i, ws, k) ==
    IF k > Len(ws) THEN TRUE
    ELSE IF i > Len(q) THEN FALSE
    ELSE IF q[i] = ws[k] THEN Visits(q, i, ws, k + 1)
    ELSE Visits(q, i + 1, ws, k)

\* C14: one search per consecutive waypoint pair, in order; when every leg
\* succeeded the route is the leg paths joined with each junction once, it
\* visits the waypoints in order and its cost is the sum of the leg costs;
\* when a leg failed there is no route and no further search.
C14_RouteStitching ==
    /\ LegsInOrder
    /\ route.status = "ok" =>
           /\ Len(hist) = Len(order) - 1
           /\ \A k \in 1 .. Len(hist) : hist[k].result.path # NoPath
           /\ route.path = Concat(Len(hist))
           /\ route.total = SumCost(Len(hist))
           /\ Visits(route.path, 1, order, 1)
    /\ (\E k \in 1 .. Len(hist) : hist[k].result.path = NoPath) =>
           /\ route.status = "failed"
           /\ route.path = <<>>
           /\ hist[Len(hist)].result.path = NoPath
           /\ pc = "done"
    /\ (pc = "done" /\ Len(hist) = Len(order) - 1
        /\ \A k \in 1 .. Len(hist) : hist[k].result.path # NoPath) =>
           route.status = "ok"

\* a route of two legs that both move, out and back
C14_Witness ==
    /\ route.status = "ok"
    /\ Len(hist) >= 2
    /\ Len(hist[1].result.path) >= 3
    /\ Len(hist[2].result.path) >= 3
    /\ Planner = "astar_solve"

\* the cost function has been applied to the edge probe.u -> probe.v
Probed == pc = "probed"

\* the cost function did not report the edge impassable
Accepted(c) == c # NoneCost /\ c # IndexError

\* C15: every edge a cost model accepts has a cost >= 0, for WeightedCost,
\* for edge_cost and for the physical energy cost, whatever the parameters and
\* the layers.
C15_NonNegativeCost == Probed /\ Accepted(probe.cost) => probe.cost >= 0

\* the physical energy cost has been applied to an uphill edge u -> v between
\* unblocked cells and to the downhill edge v -> u, with regeneration on
UphillProbe ==
    /\ Probed
    /\ fns.cost = "energy"
    /\ params.regen > 0
    /\ probe.u \notin layers.blocked
    /\ probe.v \notin layers.blocked
    /\ layers.height[probe.u] < layers.height[probe.v]

\* C16 as stated: under the physical energy cost with regeneration efficiency
\* > 0, the uphill edge u -> v between adjacent unblocked cells costs strictly
\* more than the downhill edge v -> u.
C16_UphillCostsMore == UphillProbe => probe.cost > probe.back

\* C16: the same when the two cells are equally rough.
C16_UphillCostsMoreEqualRough ==
    UphillProbe /\ layers.rough[probe.u] = layers.rough[probe.v]
        => probe.cost > probe.back

C16_Witness ==
    /\ UphillProbe
    /\ layers.rough[probe.u] = layers.rough[probe.v]
    /\ probe.back > 0

\* the elevation is the same in every cell
FlatTerrain == \A c \in Grid : layers.height[c] = layers.height[<<0, 0>>]

\* the physical energy cost has been applied to an edge of a flat terrain
FlatProbe == Probed /\ fns.cost = "energy" /\ FlatTerrain /\ Accepted(probe.cost)

\* (Crr * m * g / eta) * d for the step from u to v, in joules
FlatEnergy(u, v) ==
    (CrrMilli * MG * layers.meters_per_cell * Hypot(v[1] - u[1], v[2] - u[2]))
    \div (10 * EtaPct)

\* C17: on a terrain of constant elevation the physical energy cost of an
\* accepted edge of length d is (Crr*m*g/eta)*d, to the last digit kept, and
\* the edge costs the same in both directions.
C17_FlatEnergy ==
    FlatProbe =>
        /\ Abs(probe.cost - FlatEnergy(probe.u, probe.v)) <= 1
        /\ Accepted(probe.back) => probe.back = probe.cost

C17_Witness ==
    /\ FlatProbe
    /\ IsDiag(probe.u, probe.v)
    /\ params.regen > 0
    /\ probe.cost > 0
    /\ Accepted(probe.back)

\* the neighbor generator has been applied to probe.u
Listed == pc = "listed"

\* v lies in the region of interest, when one is configured
InRoi(v) ==
    fns.nbr # "n8" =>
        /\ roi_bounds[1] <= v[1] /\ v[1] <= roi_bounds[2]
        /\ roi_bounds[3] <= v[2] /\ v[2] <= roi_bounds[4]

\* the cells the generator is to yield for u
Adjacents(u) ==
    {v \in Grid : /\ Cheb(u, v) = 1
                  /\ InRoi(v)
                  /\ fns.nbr = "roi4" => (v[1] = u[1] \/ v[2] = u[2])}

\* C18: for a cell u of the grid (and of the region of interest) the neighbor
\* generator yields exactly the cells at Chebyshev distance 1 from u inside
\* the grid and the region of interest, the axial ones only in 4-connected
\* mode, never u, blocked or not.
C18_NeighborsExact ==
    Listed =>
        /\ SeqToSet(probe.nbrs) = Adjacents(probe.u)
        /\ probe.u \notin SeqToSet(probe.nbrs)

C18_Witness ==
    /\ Listed
    /\ fns.nbr = "roi4"
    /\ Len(probe.nbrs) = 2
    /\ roi_bounds # <<0, H - 1, 0, W - 1>>
    /\ SeqToSet(probe.nbrs) \cap layers.blocked # {}

\* an empty grid, a cell spacing that is not positive, or no elevation
Degenerate ==
    H < 1 \/ W < 1 \/ layers.meters_per_cell <= 0 \/ layers.height = NoHeight

\* C19: a degenerate input is rejected when the terrain grid and the cost
\* model are constructed: no search is started on it and none raises.
C19_DegenerateRejected == Degenerate => pc \in {"construct", "config_error"}

\* the layers have been derived from the window
Derived == pc = "derived"

\* the configured slope threshold, in the unit of the planner's slope layer:
\* steep_block_thresh_deg in degrees, max_slope as a grade
Threshold ==
    IF Planner = "plan" THEN SteepDeg * Scale ELSE (MaxGradePct * Scale) \div 100

\* C20: in derived layers a cell is blocked if and only if its elevation is
\* not finite or its slope is at or above the threshold; a cell whose slope
\* equals the threshold is blocked.
C20_BlockedIff ==
    Derived =>
        \A c \in Grid :
            c \in layers.blocked
                <=> (layers.height[c] = NaN \/ layers.slope[c] >= Threshold)

\* the step expands the node at the top of the open heap: its neighbor loop runs
Expanding == pc = "loop" /\ pc' = "loop" /\ expansions' = expansions + 1

\* the node being expanded
Popped == HeapMin(openh)[4]

\* the entries of the open heap for the node v
EntriesOf(S, v) == {e \in S : e[4] = v}

\* the edge u -> v cannot be taken: v is blocked or the cost function says so
Impassable(u, v) == v \in layers.blocked \/ edge_cost_fn(u, v) = NoneCost

\* the step leaves the node v as it was: its g-score, its parent link, its
\* entries in the open heap and the goal candidate
Untouched(v) ==
    /\ (v \in DOMAIN g') = (v \in DOMAIN g)
    /\ v \in DOMAIN g => g'[v] = g[v] /\ parent'[v] = parent[v]
    /\ EntriesOf(openh', v) \subseteq EntriesOf(openh, v)
    /\ v = goal => best_goal_cost' = best_goal_cost /\ best_goal_node' = best_goal_node

\* C21: when a node is expanded, a neighbor whose edge is impassable (a blocked
\* neighbor, or an edge the cost function rejects) is skipped: the expansion
\* does not set its g-score or parent, push an entry for it or record it as
\* the goal candidate.
C21_ImpassableSkipped ==
    [][Expanding =>
         \A v \in SeqToSet(neighbors_fn(Popped)) :
             Impassable(Popped, v) => Untouched(v)]_vars

\* a step of the running search
Searching == pc = "loop"

\* C22: a closed node is final: it stays closed, its g-score and parent link
\* never change again in the search, and popping a later entry for it neither
\* counts an expansion nor adds to the expansion order.
C22_ClosedIsFinal ==
    [][Searching =>
         /\ \A v \in closed :
                /\ v \in closed'
                /\ g'[v] = g[v]
                /\ parent'[v] = parent[v]
         /\ openh # {} /\ Popped \in closed =>
                /\ expansions' = expansions
                /\ expanded_order' = expanded_order
                /\ closed' = closed]_vars

\* a stale entry has been popped and discarded: without a beam every entry
\* that left the heap was popped, and more were popped than nodes expanded
C22_Witness ==
    /\ Searching
    /\ cfg.beam_width = NoneOpt
    /\ counter + 1 - Cardinality(openh) > expansions
    /\ closed # {}

\* the open heap of the expanding step after its neighbor loop, before pruning
PrePrune ==
    RelaxAll(LoopState, Popped, g[Popped], neighbors_fn(Popped), 1,
             closed \cup {Popped}).openh

\* the key (f, h, insertion counter) of a comes before the key of b
KeyBefore(a, b) ==
    \/ a[1] < b[1]
    \/ a[1] = b[1] /\ (a[2] < b[2] \/ (a[2] = b[2] /\ a[3] < b[3]))

\* C23: with beam_width = K the open heap holds at most K entries after every
\* expansion, and when the heap is pruned the entries kept are exactly the K
\* entries of the heap before pruning with the smallest (f, h, counter) keys.
C23_BeamKeepsSmallest ==
    [][Expanding /\ cfg.beam_width # NoneOpt =>
         /\ Cardinality(openh') <= cfg.beam_width
         /\ openh' \subseteq PrePrune
         /\ IF Cardinality(PrePrune) > cfg.beam_width
            THEN /\ Cardinality(openh') = cfg.beam_width
                 /\ \A a \in openh' : \A b \in PrePrune \ openh' : KeyBefore(a, b)
            ELSE openh' = PrePrune]_vars

\* the first expansion pushed more entries than the beam holds and the heap
\* was cut down to the beam width
C23_Witness ==
    /\ Searching
    /\ cfg.beam_width # NoneOpt
    /\ expansions = 1
    /\ counter > cfg.beam_width
    /\ Cardinality(openh) = cfg.beam_width

\* the step pops an entry and the search goes on: the next step pops again
PopsOn == Searching /\ openh # {} /\ pc' = "loop"

\* no entry left or pushed by the step has a smaller f than the entry it
\* popped, so that the next entry popped, the least of the heap, has not
PopOrdered == \A e \in openh' : e[1] >= HeapMin(openh)[1]

\* C24 as stated: with weight 1, no beam and an admissible heuristic the
\* f-values of the popped entries, stale ones included, never decrease from
\* one pop to the next.
C24_AdmissibleMonotone ==
    [][(PopsOn /\ PlainSearch /\ ~PopOrdered) => ~Admissible]_vars

\* C24: the same for a consistent heuristic.
C24_ConsistentMonotone ==
    [][(PopsOn /\ PlainSearch /\ ~PopOrdered) => ~Consistent]_vars

\* a search under a consistent caller-supplied heuristic that is not zero, in
\* which a stale entry has been popped between two expansions
C24_Witness ==
    /\ Searching
    /\ PlainSearch
    /\ fns.heur = "table"
    /\ \E v \in Grid : fns.htab[v] > 0
    /\ expansions >= 2
    /\ counter + 1 - Cardinality(openh) > expansions
    /\ Consistent

\* |elevation(v) - elevation(u)| / stepDistance > max_grade * EDGE_TOL
TooSteep(u, v) ==
    Abs(layers.height[v] - layers.height[u]) * Scale * 100 * 100
        > MaxGradePct * EdgeTolPct * HorizDist(u, v)

\* the edge u -> v passes the per-edge check of the slope model
EdgePasses(u, v) == HorizDist(u, v) > 0 /\ ~TooSteep(u, v)

SlopeProbe == Probed /\ fns.cost = "slope"

\* C25: in the slope model an edge into an unblocked cell is impassable
\* exactly when its grade exceeds max_grade * EDGE_TOL or its length is
\* degenerate; after a rejection the cell is still entered from every neighbor
\* whose edge passes the check; and an edge into a blocked cell is impassable
\* whatever its grade.
C25_EdgeGradeCheck ==
    SlopeProbe =>
        /\ probe.v \notin layers.blocked =>
               /\ probe.cost = NoneCost <=> ~EdgePasses(probe.u, probe.v)
               /\ \A w \in SeqToSet(neighbors_8(probe.v, H, W)) :
                      EdgePasses(w, probe.v) => edge_cost_fn(w, probe.v) # NoneCost
        /\ probe.v \in layers.blocked => probe.cost = NoneCost

\* an edge into an unblocked cell has been rejected for its grade, and another
\* neighbor of that cell has an edge into it that passes
C25_Witness ==
    /\ SlopeProbe
    /\ probe.v \notin layers.blocked
    /\ TooSteep(probe.u, probe.v)
    /\ probe.cost = NoneCost
    /\ \E w \in SeqToSet(neighbors_8(probe.v, H, W)) :
           EdgePasses(w, probe.v) /\ edge_cost_fn(w, probe.v) # NoneCost

\* no node appears twice in the sequence
NoRepeats(s) == \A i, j \in DOMAIN s : s[i] = s[j] => i = j

\* C26: in every result astar returns the number of expansions is the length
\* of the expansion order, in which no node appears twice.
C26_CountMatchesOrder ==
    Returned =>
        /\ result.expansions = Len(result.expanded_order)
        /\ NoRepeats(result.expanded_order)

\* the same for the searches that enter the main loop
C26_CountMatchesOrderInLoop == Returned /\ start # goal => C26_CountMatchesOrder

\* the sum of edge_cost_fn(p[k], p[k + 1]) for k < i, added up from the start
RECURSIVE PathSum(_, _)
PathSum(p, i) ==
    IF i <= 1 THEN 0 ELSE FAdd(PathSum(p, i - 1), edge_cost_fn(p[i - 1], p[i]))

\* C27: whenever astar returns a path, the returned cost is the sum of
\* edge_cost_fn over the consecutive pairs of that path, whichever return gave
\* it.
C27_CostIsPathSum ==
    Returned /\ result.path # NoPath =>
        result.cost = PathSum(result.path, Len(result.path))

\* a best goal candidate with a path of three cells or more returned, after
\* beam pruning, by something else than the goal being popped
C27_Witness ==
    /\ Returned
    /\ result.how \in {"epsilon", "cap", "drained"}
    /\ cfg.beam_width # NoneOpt
    /\ result.path # NoPath
    /\ Len(result.path) >= 3
    /\ result.cost = PathSum(result.path, Len(result.path))

Capped == cfg.max_expansions # NoneOpt

\* C28: with max_expansions = N the expansion count of every return is at most
\* max(1, N); the expansion that reaches the cap returns in the same step,
\* before any neighbor of the expanded node is relaxed.
C28_CapBoundsExpansions ==
    [][Capped =>
         /\ pc' = "done" => result'.expansions <= Max2(1, cfg.max_expansions)
         /\ Expanding => expansions' < cfg.max_expansions
         /\ Searching /\ expansions' = expansions + 1
                /\ expansions' >= cfg.max_expansions =>
                /\ pc' = "done"
                /\ result'.how = "cap"
                /\ g' = g /\ parent' = parent /\ counter' = counter
                /\ openh' \subseteq openh]_vars

\* a search that returned at the cap with as many expansions as the cap allows
C28_Witness ==
    /\ Returned
    /\ Capped
    /\ cfg.max_expansions >= 2
    /\ result.how = "cap"
    /\ result.expansions = cfg.max_expansions

\* astar called with a weight and no other option, under each cost function
\* (WeightedCost, edge_cost also with a negative slope_weight, the energy
\* model) and the planners' heuristics or a caller-supplied one: zero, or a
\* spike on the cell east of the north-west corner
LiveFns ==
    {SimFns, AppFns, [AppFns EXCEPT !.cost = "energy"]}
    \cup {[AppFns EXCEPT !.heur = "table", !.htab = t] :
            t \in {ZeroLayer(GridH, GridW), Spike(GridH, GridW, <<0, 1>>, MaxSpike)}}

\* elevation windows: flat or rising by a metre per column, with or without
\* a ridge a metre high along column 1
LiveWindows(h, w) ==
    {[c \in Cells(h, w) |-> b * c[2] + (IF c[2] = 1 THEN k ELSE 0)] :
        b \in 0 .. 1, k \in 0 .. 1}

InitLive ==
    /\ H = GridH
    /\ W = GridW
    /\ fns \in LiveFns
    /\ IF fns.cost = "weighted"
       THEN /\ layers \in {Terrain(GridH, GridW, b, ZeroLayer(GridH, GridW)) :
                              b \in SUBSET {<<0, GridW - 1>>, <<GridH - 1, 1>>}}
            /\ params = DefaultParams
       ELSE /\ layers \in {DerivedLayers(e, GridH, GridW, 2) :
                              e \in LiveWindows(GridH, GridW)}
            /\ params \in [slope_weight : IF fns.cost = "slope"
                                           THEN {-5, SlopeWeight}
                                           ELSE {SlopeWeight},
                            regen : {RegenPct}, pad : {Pad}]
    /\ cfg \in {Plain, [Plain EXCEPT !.weight = 2]}
    /\ order \in {<<<<0, 0>>, b>> : b \in {<<0, 0>>} \cup Column(GridH, GridW - 1)}
    /\ pts = order
    /\ max_radius = MaxRadius
    /\ leg = 0
    /\ start = NoNode
    /\ goal = NoNode
    /\ pc = "ready"
    /\ openh = {}
    /\ g = <<>>
    /\ parent = <<>>
    /\ closed = {}
    /\ expansions = 0
    /\ expanded_order = <<>>
    /\ best_goal_cost = NoneCost
    /\ best_goal_node = NoNode
    /\ counter = 0
    /\ result = [path |-> NoPath, cost |-> 0, expansions |-> 0,
                 expanded_order |-> <<>>, how |-> "none"]
    /\ fnCalls = [heur |-> 0, nbr |-> 0, cost |-> 0]
    /\ hist = <<>>
    /\ route = NoRoute
    /\ probe = NoProbe

NextLive ==
    \/ Call
    \/ StalePop
    \/ GoalPop
    \/ Expand
    \/ Drained

\* astar is one synchronous loop: an iteration that can run does run
SpecLive == InitLive /\ [][NextLive]_vars /\ WF_vars(NextLive)

\* C29: without cap, time budget, epsilon or beam astar returns, whatever the
\* cost function, heuristic and weight, and never counts more than H * W
\* expansions.
C29_Terminates ==
    /\ [](expansions <= H * W)
    /\ (pc = "ready") ~> Returned

\* a search that returned after expanding every cell of the grid
C29_Witness == Returned /\ result.expansions = H * W

\* the planner returned a route over all its legs
Routed == route.status = "ok"

\* C30: in every route the planner returns, each cell is followed by a
\* different cell that the neighbor generator yields for it.
C30_RouteStepsAdjacent ==
    Routed =>
        \A k \in 1 .. Len(route.path) - 1 :
            /\ route.path[k] # route.path[k + 1]
            /\ route.path[k + 1] \in SeqToSet(neighbors_fn(route.path[k]))

\* a route of two legs or more, one of them from a cell to itself and another
\* one between two different cells
C30_Witness ==
    /\ Routed
    /\ Len(hist) >= 2
    /\ \E k \in DOMAIN hist : hist[k].start = hist[k].goal
    /\ \E k \in DOMAIN hist : hist[k].start # hist[k].goal
    /\ Len(route.path) >= 3

====
